---- MODULE Spec2Model ----
(***************************************************************************)
(* Bidhaaline e-commerce backend: the admin controller                     *)
(* (Backend/controllers/adminController.js) and the tracking controller    *)
(* (unnamed/part_000), run against the Record Store (Supabase/PostgREST).  *)
(*                                                                         *)
(* The store is modelled by the three tables the handlers touch.  Every    *)
(* handler is an async function: it runs up to its next `await` in one     *)
(* step, the awaited store operation is one step of the store, and the     *)
(* handler's continuation (up to the response) runs with the result.       *)
(* A request is a slot of `reqs`; its `pc` is the handler's position.      *)
(***************************************************************************)
EXTENDS Integers, Sequences, FiniteSets, TLC

(***************************************************************************)
(* Bounds of the model.                                                    *)
(***************************************************************************)
MaxRequests == 2      \* requests started in one behaviour
MaxTicks == 1         \* how far the application clock (Date.now()) advances

(***************************************************************************)
(* JavaScript / PostgREST values.                                          *)
(***************************************************************************)
Null == [null |-> TRUE]                 \* JS null/undefined for object values
NullText == "<null>"                    \* SQL NULL in a text column
NoError == "<no error>"                 \* `error: null` of a store result
StoreFailure == "StoreFailure"          \* the store could not run the operation
PGRST116 == "PGRST116"                  \* .single(): result is not exactly one row
UniqueViolation == "23505"              \* duplicate primary key
NotNullViolation == "23502"             \* NULL in a NOT NULL column
TypeError == "TypeError"                \* property read on null

VARIABLES
    orders,      \* table orders: id -> row
    tracking,    \* table order_tracking: rows in physical (heap) order
    products,    \* table products: id -> row
    dbNow,       \* the store's clock, source of order_tracking.created_at
    now,         \* the application server's clock as last read (Date.now())
    reqs,        \* requests: slot -> handler position, locals and response
    nreq,        \* number of requests started so far
    currentUser,   \* frontend global: the logged-in user, or null
    isLoggedIn,    \* frontend global
    userRole,      \* frontend global
    cart,          \* frontend global: the cart items last fetched
    apiClient,     \* frontend: the ApiClient instance, [token]
    localStorage,  \* the browser's storage: items authToken and currentUser
    calls,         \* frontend: async functions suspended at an await
    serverCart     \* cart_items as served by /api/cart: user id -> items

\* the state of the page and of what it talks to
frontend ==
    <<currentUser, isLoggedIn, userRole, cart, apiClient, localStorage, calls, serverCart>>

vars == <<orders, tracking, products, dbNow, now, reqs, nreq, frontend>>

\* no page is open: the globals as the script declares them (lines 2-8)
NoPage ==
    /\ currentUser = Null
    /\ isLoggedIn = FALSE
    /\ userRole = "customer"
    /\ cart = <<>>
    /\ apiClient = [token |-> NullText]
    /\ localStorage = [authToken |-> NullText, currentUser |-> Null]
    /\ calls = <<>>
    /\ serverCart = <<>>

(***************************************************************************)
(* Sequence helpers.                                                       *)
(***************************************************************************)
RECURSIVE InsertByCreatedAt(_, _)
InsertByCreatedAt(row, sorted) ==
    IF sorted = <<>> THEN <<row>>
    ELSE IF row.created_at < Head(sorted).created_at
         THEN <<row>> \o sorted
         ELSE <<Head(sorted)>> \o InsertByCreatedAt(row, Tail(sorted))

RECURSIVE SortAscending(_)
SortAscending(rows) ==
    IF rows = <<>> THEN <<>>
    ELSE InsertByCreatedAt(rows[Len(rows)], SortAscending(SubSeq(rows, 1, Len(rows) - 1)))

Reverse(seq) == [i \in 1..Len(seq) |-> seq[Len(seq) + 1 - i]]

\* the rows as the table holds them: the .order() clause left out
OrderByCreatedAt_Unsorted(rows) == rows

\* .order('created_at', { ascending: true })
OrderByCreatedAt(rows) == SortAscending(rows)

\* .single(): exactly one row is the data, anything else is error PGRST116
Single(rows) ==
    IF Len(rows) = 1
    THEN [data |-> rows[1], error |-> NoError]
    ELSE [data |-> Null, error |-> PGRST116]

\* a store operation that could not be run: supabase-js resolves (it does
\* not reject) with data null and the error
Failed == [data |-> Null, error |-> StoreFailure]

(***************************************************************************)
(* Responses.  res.status(c).json(body) is [code, status, message, data];  *)
(* next(error) reaches the centralized error handler.                      *)
(***************************************************************************)
NoResp == [none |-> TRUE]

Json(code, st, msg, data) ==
    [code |-> code, status |-> st, message |-> msg, data |-> data]

\* middleware/errorHandler.js: the uniform envelope of an Internal error
errorHandler(err) ==
    [code |-> 500, status |-> "error", message |-> err, data |-> Null]

OrderNotFound == Json(404, "error", "Order not found", Null)
ProductNotFound == Json(404, "error", "Product not found", Null)

(***************************************************************************)
(* Order Status Engine: the description of a status.                       *)
(***************************************************************************)
\* own properties of the object literal statusDescriptions
StatusTable ==
    [Confirmed |-> "Your order has been confirmed and is being prepared",
     Shipped   |-> "Your order has been shipped and is on its way",
     Delivered |-> "Your order has been delivered successfully",
     Cancelled |-> "Your order has been cancelled"]

\* statusDescriptions is a plain object: a key it does not own is looked up
\* on Object.prototype, whose members are functions (truthy)
ObjectPrototypeKeys ==
    {"constructor", "toString", "valueOf", "hasOwnProperty",
     "isPrototypeOf", "propertyIsEnumerable", "toLocaleString"}

DefaultDescription(status) == "Order status updated to " \o status

\* statusDescriptions[status] || `Order status updated to ${status}`
\* as a JS value: a string, or a function inherited from Object.prototype
statusDescription(status) ==
    IF status \in DOMAIN StatusTable
    THEN [type |-> "string", value |-> StatusTable[status]]
    ELSE IF status \in ObjectPrototypeKeys
         THEN [type |-> "function", value |-> status]
         ELSE [type |-> "string", value |-> DefaultDescription(status)]

\* JSON.stringify of the insert body drops a function-valued property: the
\* column is then not supplied
JsonColumn(v) == IF v.type = "string" THEN v.value ELSE NullText

(***************************************************************************)
(* Fixtures: the rows the store holds before the first request.  Orders    *)
(* are created by checkout and products by earlier admin requests; both    *)
(* carry distinct creation times that lie in the past of both clocks.      *)
(***************************************************************************)
MissingOrderId == "ORD999999"
MissingProductId == "PRD999999"
Users == {"u1", "u2"}

MkOrder(id, status, amount, user, t) ==
    [id |-> id, status |-> status, total_amount |-> amount, user_id |-> user,
     created_at |-> t, updated_at |-> t,
     customer_name |-> "name of " \o user,
     customer_phone |-> "phone of " \o user,
     customer_email |-> "email of " \o user]

NoOrders == [id \in {} |-> Null]
OneOrder == [id \in {"ORD1"} |-> MkOrder("ORD1", "Processing", 10, "u1", 1)]
TwoOrders(st) ==
    [id \in {"ORD1", "ORD2"} |->
        IF id = "ORD1" THEN MkOrder("ORD1", "Processing", 10, "u1", 1)
                       ELSE MkOrder("ORD2", st, 20, "u2", 2)]

MkTracking(id, status, description, t) ==
    [order_id |-> id, status |-> status, description |-> description,
     created_at |-> t]

\* the heap order of a table is not its chronological order
OneOrderTracking ==
    <<MkTracking("ORD1", "Confirmed", StatusTable["Confirmed"], 3),
      MkTracking("ORD1", "Processing", "Order placed", 1)>>

TwoOrdersTracking ==
    <<MkTracking("ORD1", "Confirmed", StatusTable["Confirmed"], 3),
      MkTracking("ORD2", "Processing", "Order placed", 2),
      MkTracking("ORD1", "Processing", "Order placed", 1)>>

ProductBodies ==
    {[name |-> "Headphones", description |-> "Wireless", price |-> 100,
      category |-> "electronics", stock |-> 5, image_url |-> "h.png"],
     [name |-> "Coffee", description |-> "Organic", price |-> 7,
      category |-> "food", stock |-> 0, image_url |-> "c.png"]}


MkProduct(id, body, active) ==
    [id |-> id, name |-> body.name, description |-> body.description,
     price |-> body.price, category |-> body.category, stock |-> body.stock,
     image_url |-> body.image_url, is_active |-> active]

FixtureBody == CHOOSE b \in ProductBodies : b.name = "Headphones"

NoProducts == [id \in {} |-> Null]

OneProduct(active) == [id \in {"PRD000001"} |-> MkProduct(id, FixtureBody, active)]

Fixtures ==
    {[orders |-> NoOrders, tracking |-> <<>>, products |-> NoProducts],
     [orders |-> OneOrder, tracking |-> <<>>, products |-> OneProduct(TRUE)],
     [orders |-> OneOrder, tracking |-> OneOrderTracking, products |-> OneProduct(FALSE)],
     [orders |-> TwoOrders("Processing"), tracking |-> TwoOrdersTracking, products |-> OneProduct(TRUE)],
     [orders |-> TwoOrders("Cancelled"), tracking |-> TwoOrdersTracking, products |-> OneProduct(TRUE)]}

Max(S) == CHOOSE m \in S : \A n \in S : n <= m

FixtureTimes ==
    UNION {{f.orders[o].updated_at : o \in DOMAIN f.orders}
           \cup {f.tracking[i].created_at : i \in 1..Len(f.tracking)} : f \in Fixtures}

\* both clocks start later than every fixture row
FirstDbNow == Max(FixtureTimes) + 1
FirstNow == Max(FixtureTimes) + 1
MaxNow == FirstNow + MaxTicks

(***************************************************************************)
(* Requests.                                                               *)
(***************************************************************************)
IdleReq ==
    [op |-> "idle", pc |-> "idle", id |-> "", arg |-> Null,
     local |-> Null, resp |-> NoResp]

NewReq(op, pc, id, arg) ==
    [op |-> op, pc |-> pc, id |-> id, arg |-> arg,
     local |-> Null, resp |-> NoResp]

Slots == DOMAIN reqs
Free(s) == reqs[s].pc \in {"idle", "done"}

\* the handler of slot s is entered with a fresh request
Begin(s, r) ==
    /\ Free(s)
    /\ nreq < MaxRequests
    /\ reqs' = [reqs EXCEPT ![s] = r]
    /\ nreq' = nreq + 1

\* the handler of slot s ends with response resp
Respond(s, resp) ==
    reqs' = [reqs EXCEPT ![s].pc = "done", ![s].resp = resp]

\* the handler of slot s goes on to its next await
Continue(s, pc, local) ==
    reqs' = [reqs EXCEPT ![s].pc = pc, ![s].local = local]

Done(s, op) == reqs[s].op = op /\ reqs[s].pc = "done"

OrderIdInputs == DOMAIN orders \cup {MissingOrderId}
ProductIdInputs == DOMAIN products \cup {MissingProductId}
StatusInputs == {"Shipped", "Processing", "Returned", "toString"}

TypeOK ==
    /\ dbNow \in Nat /\ now \in FirstNow..MaxNow /\ nreq \in 0..MaxRequests
    /\ \A id \in DOMAIN orders : orders[id].id = id
    /\ \A id \in DOMAIN products : products[id].id = id

Init ==
    /\ \E f \in Fixtures :
          /\ orders = f.orders
          /\ tracking = f.tracking
          /\ products = f.products
    /\ dbNow = FirstDbNow
    /\ now = FirstNow
    /\ reqs = [s \in 1..1 |-> IdleReq]
    /\ nreq = 0
    /\ NoPage

\* Date.now() / new Date(): the clock is read, and it never runs backwards
ClockRead(t) ==
    /\ t \in now..MaxNow
    /\ now' = t

(***************************************************************************)
(* Store operations on orders and order_tracking.                          *)
(***************************************************************************)
\* from('orders') ... .eq('id', id): rows of the table with that id
OrdersById(id) == IF id \in DOMAIN orders THEN <<orders[id]>> ELSE <<>>

\* the ownership filter left out
EqUserId_NoFilter(rows, user) == rows

\* .eq('user_id', req.user.id)
EqUserId(rows, user) == SelectSeq(rows, LAMBDA o : o.user_id = user)

\* from('order_tracking') ... .eq('order_id', orderId)
TrackingByOrderId(id) == SelectSeq(tracking, LAMBDA t : t.order_id = id)

\* the update without the updated_at stamp
UpdatedOrders_StatusOnly(id, status, ts) ==
    IF id \in DOMAIN orders
    THEN [orders EXCEPT ![id].status = status]
    ELSE orders

\* from('orders').update({ status, updated_at }).eq('id', id)
UpdatedOrders(id, status, ts) ==
    IF id \in DOMAIN orders
    THEN [orders EXCEPT ![id].status = status, ![id].updated_at = ts]
    ELSE orders

\* the status table applied to the inserted entry, whatever description is given
InsertedTracking_TableLookup(id, status, description) ==
    Append(tracking, MkTracking(id, status, JsonColumn(statusDescription(status)), dbNow))

\* from('order_tracking').insert([{ order_id, status, description }]): the
\* store stamps created_at from its clock and appends the row
InsertedTracking(id, status, description) ==
    Append(tracking, MkTracking(id, status, description, dbNow))

\* the whole row sent instead of the six fields
OrderView_Whole(order) == order

\* the order as it is sent in a tracking response
OrderView(order) ==
    [id |-> order.id, status |-> order.status,
     total_amount |-> order.total_amount, created_at |-> order.created_at,
     customer_name |-> order.customer_name,
     customer_phone |-> order.customer_phone]

(***************************************************************************)
(* updateOrderStatus (PATCH /api/admin/orders/:id/status)                  *)
(***************************************************************************)
StartUpdateOrderStatus(s) ==
    /\ \E id \in OrderIdInputs, status \in StatusInputs, t \in FirstNow..MaxNow :
          /\ ClockRead(t)
          /\ Begin(s, NewReq("updateOrderStatus", "update", id,
                             [status |-> status, updated_at |-> t]))
    /\ UNCHANGED <<orders, tracking, products, dbNow, frontend>>

\* the handler after the awaited update: lines 141-152
UpdateOrderStatusAfterUpdate(s, res) ==
    IF res.error # NoError THEN Respond(s, errorHandler(res.error))
    ELSE IF res.data = Null THEN Respond(s, OrderNotFound)
    ELSE Continue(s, "insert",
                  [order |-> res.data,
                   description |-> statusDescription(reqs[s].arg.status)])

UpdateOrderStatusUpdate(s) ==
    /\ reqs[s].op = "updateOrderStatus" /\ reqs[s].pc = "update"
    /\ \E fail \in BOOLEAN :
          LET r == reqs[s]
              after == UpdatedOrders(r.id, r.arg.status, r.arg.updated_at)
              rows == IF r.id \in DOMAIN after THEN <<after[r.id]>> ELSE <<>>
          IN  /\ orders' = IF fail THEN orders ELSE after
              /\ UpdateOrderStatusAfterUpdate(s, IF fail THEN Failed ELSE Single(rows))
    /\ UNCHANGED <<tracking, products, dbNow, now, nreq, frontend>>

\* the insert of the tracking entry and the response: lines 154-164.
\* A description that is not supplied is NULL; whether the column accepts
\* NULL is a property of the schema, which the handlers do not fix.
UpdateOrderStatusInsert(s) ==
    /\ reqs[s].op = "updateOrderStatus" /\ reqs[s].pc = "insert"
    /\ \E fail \in BOOLEAN, notNull \in BOOLEAN :
          LET r == reqs[s]
              description == JsonColumn(r.local.description)
              error == IF fail THEN StoreFailure
                       ELSE IF description = NullText /\ notNull THEN NotNullViolation
                       ELSE NoError
          IN  IF error # NoError
              THEN /\ Respond(s, errorHandler(error))
                   /\ UNCHANGED <<tracking, dbNow>>
              ELSE /\ tracking' = InsertedTracking(r.id, r.arg.status, description)
                   /\ dbNow' = dbNow + 1
                   /\ Respond(s, Json(200, "success", "Order status updated successfully",
                                      [order |-> r.local.order]))
    /\ UNCHANGED <<orders, products, now, nreq, frontend>>

(***************************************************************************)
(* getOrderTracking (GET /api/tracking/:orderId) and getUserOrderTracking  *)
(* (GET /api/tracking/user/:orderId)                                       *)
(***************************************************************************)
\* the handler after the awaited order read: lines 14-19 and 61-66
TrackingAfterOrder(s, res) ==
    IF res.error # NoError \/ res.data = Null THEN Respond(s, OrderNotFound)
    ELSE Continue(s, "tracking", [order |-> res.data])

\* the handler after the awaited history read: lines 28-43 and 75-90
TrackingAfterHistory(s, res) ==
    IF res.error # NoError THEN Respond(s, errorHandler(res.error))
    ELSE Respond(s, Json(200, "success", NullText,
                         [order |-> OrderView(reqs[s].local.order),
                          trackingHistory |-> res.data]))

\* the awaited history read: lines 22-26 and 69-73
ReadTrackingHistory(id, fail) ==
    IF fail THEN Failed
    ELSE [data |-> OrderByCreatedAt(TrackingByOrderId(id)), error |-> NoError]

StartGetOrderTracking(s) ==
    /\ \E id \in OrderIdInputs :
          Begin(s, NewReq("getOrderTracking", "order", id, Null))
    /\ UNCHANGED <<orders, tracking, products, dbNow, now, frontend>>

GetOrderTrackingOrder(s) ==
    /\ reqs[s].op = "getOrderTracking" /\ reqs[s].pc = "order"
    /\ \E fail \in BOOLEAN :
          TrackingAfterOrder(s, IF fail THEN Failed ELSE Single(OrdersById(reqs[s].id)))
    /\ UNCHANGED <<orders, tracking, products, dbNow, now, nreq, frontend>>

\* a lookup that leaves a "Viewed" entry behind
GetOrderTrackingHistory_Logging(s) ==
    /\ reqs[s].op = "getOrderTracking" /\ reqs[s].pc = "tracking"
    /\ \E fail \in BOOLEAN :
          TrackingAfterHistory(s, ReadTrackingHistory(reqs[s].id, fail))
    /\ tracking' = InsertedTracking(reqs[s].id, "Viewed", NullText)
    /\ dbNow' = dbNow + 1
    /\ UNCHANGED <<orders, products, now, nreq, frontend>>

GetOrderTrackingHistory(s) ==
    /\ reqs[s].op = "getOrderTracking" /\ reqs[s].pc = "tracking"
    /\ \E fail \in BOOLEAN :
          TrackingAfterHistory(s, ReadTrackingHistory(reqs[s].id, fail))
    /\ UNCHANGED <<orders, tracking, products, dbNow, now, nreq, frontend>>

StartGetUserOrderTracking(s) ==
    /\ \E id \in OrderIdInputs, user \in Users :
          Begin(s, NewReq("getUserOrderTracking", "order", id, [user |-> user]))
    /\ UNCHANGED <<orders, tracking, products, dbNow, now, frontend>>

GetUserOrderTrackingOrder(s) ==
    /\ reqs[s].op = "getUserOrderTracking" /\ reqs[s].pc = "order"
    /\ \E fail \in BOOLEAN :
          TrackingAfterOrder(s, IF fail THEN Failed
                                ELSE Single(EqUserId(OrdersById(reqs[s].id),
                                                     reqs[s].arg.user)))
    /\ UNCHANGED <<orders, tracking, products, dbNow, now, nreq, frontend>>

GetUserOrderTrackingHistory(s) ==
    /\ reqs[s].op = "getUserOrderTracking" /\ reqs[s].pc = "tracking"
    /\ \E fail \in BOOLEAN :
          TrackingAfterHistory(s, ReadTrackingHistory(reqs[s].id, fail))
    /\ UNCHANGED <<orders, tracking, products, dbNow, now, nreq, frontend>>

(***************************************************************************)
(* addTrackingUpdate (POST /api/tracking/:orderId)                         *)
(***************************************************************************)
TrackingBodies ==
    {[status |-> "Shipped", description |-> "Left the warehouse"]}

StartAddTrackingUpdate(s) ==
    /\ \E id \in OrderIdInputs, body \in TrackingBodies :
          Begin(s, NewReq("addTrackingUpdate", "order", id, body))
    /\ UNCHANGED <<orders, tracking, products, dbNow, now, frontend>>

\* the existence check and lines 108-113
AddTrackingUpdateOrder(s) ==
    /\ reqs[s].op = "addTrackingUpdate" /\ reqs[s].pc = "order"
    /\ \E fail \in BOOLEAN :
          LET rows == [i \in 1..Len(OrdersById(reqs[s].id)) |->
                          [id |-> OrdersById(reqs[s].id)[i].id]]
              res == IF fail THEN Failed ELSE Single(rows)
          IN  IF res.error # NoError \/ res.data = Null
              THEN Respond(s, OrderNotFound)
              ELSE Continue(s, "insert", [order |-> res.data])
    /\ UNCHANGED <<orders, tracking, products, dbNow, now, nreq, frontend>>

\* the insert and lines 122-130
\* the entry written over the order's newest entry instead of appended
AddTrackingUpdateInsert_Replacing(s) ==
    /\ reqs[s].op = "addTrackingUpdate" /\ reqs[s].pc = "insert"
    /\ LET r == reqs[s]
           row == MkTracking(r.id, r.arg.status, r.arg.description, dbNow)
           own == {i \in 1..Len(tracking) : tracking[i].order_id = r.id}
       IN  /\ tracking' = IF own = {} THEN Append(tracking, row)
                          ELSE [tracking EXCEPT ![Max(own)] = row]
           /\ dbNow' = dbNow + 1
           /\ Respond(s, Json(201, "success", "Tracking update added successfully",
                              [tracking |-> row]))
    /\ UNCHANGED <<orders, products, now, nreq, frontend>>

AddTrackingUpdateInsert(s) ==
    /\ reqs[s].op = "addTrackingUpdate" /\ reqs[s].pc = "insert"
    /\ \E fail \in BOOLEAN :
          LET r == reqs[s]
              after == InsertedTracking(r.id, r.arg.status, r.arg.description)
              res == IF fail THEN Failed ELSE Single(<<after[Len(after)]>>)
          IN  IF res.error # NoError
              THEN /\ Respond(s, errorHandler(res.error))
                   /\ UNCHANGED <<tracking, dbNow>>
              ELSE /\ tracking' = after
                   /\ dbNow' = dbNow + 1
                   /\ Respond(s, Json(201, "success", "Tracking update added successfully",
                                      [tracking |-> res.data]))
    /\ UNCHANGED <<orders, products, now, nreq, frontend>>

(***************************************************************************)
(* Product management.  Each handler awaits one store operation.           *)
(***************************************************************************)
IdModulus == 1000000       \* .slice(-6): the last six decimal digits

Pad6(n) ==
    IF n < 10 THEN "00000" \o ToString(n)
    ELSE IF n < 100 THEN "0000" \o ToString(n)
    ELSE IF n < 1000 THEN "000" \o ToString(n)
    ELSE IF n < 10000 THEN "00" \o ToString(n)
    ELSE IF n < 100000 THEN "0" \o ToString(n)
    ELSE ToString(n)

\* 'PRD' + Date.now().toString().slice(-6)
generateProductId(t) == "PRD" \o Pad6(t % IdModulus)

\* from('products').insert([{ id, ...body }]); is_active is the column default
InsertedProducts(id, body) ==
    [p \in DOMAIN products \cup {id} |->
        IF p = id THEN MkProduct(id, body, TRUE) ELSE products[p]]

\* from('products').update({ name, description, price, category, stock, image_url }).eq('id', id)
UpdatedProducts(id, body) ==
    IF id \in DOMAIN products
    THEN [products EXCEPT ![id] = MkProduct(id, body, products[id].is_active)]
    ELSE products

\* the row removed instead of flagged: from('products').delete().eq('id', id)
HardDeletedProducts(id) == [p \in DOMAIN products \ {id} |-> products[p]]

\* from('products').update({ is_active: false }).eq('id', id)
SoftDeletedProducts(id) ==
    IF id \in DOMAIN products
    THEN [products EXCEPT ![id].is_active = FALSE]
    ELSE products

\* a handler with one await: entered, store operation done, response sent
Handle(s, op, id, arg, resp) ==
    Begin(s, [NewReq(op, "done", id, arg) EXCEPT !.resp = resp])

createProduct(s) ==
    /\ \E body \in ProductBodies, fail \in BOOLEAN, t \in FirstNow..MaxNow :
          LET productId == generateProductId(t)
              error == IF fail THEN StoreFailure
                       ELSE IF productId \in DOMAIN products THEN UniqueViolation
                       ELSE NoError
              after == InsertedProducts(productId, body)
              res == IF error # NoError THEN [data |-> Null, error |-> error]
                     ELSE Single(<<after[productId]>>)
          IN  /\ ClockRead(t)
              /\ products' = IF error # NoError THEN products ELSE after
              /\ Handle(s, "createProduct", productId, body,
                        IF res.error # NoError THEN errorHandler(res.error)
                        ELSE Json(201, "success", "Product created successfully",
                                  [product |-> res.data]))
    /\ UNCHANGED <<orders, tracking, dbNow, frontend>>

updateProduct(s) ==
    /\ \E id \in ProductIdInputs, body \in ProductBodies, fail \in BOOLEAN :
          LET after == UpdatedProducts(id, body)
              rows == IF id \in DOMAIN after THEN <<after[id]>> ELSE <<>>
              res == IF fail THEN Failed ELSE Single(rows)
          IN  /\ products' = IF fail THEN products ELSE after
              /\ Handle(s, "updateProduct", id, body,
                        IF res.error # NoError THEN errorHandler(res.error)
                        ELSE IF res.data = Null THEN ProductNotFound
                        ELSE Json(200, "success", "Product updated successfully",
                                  [product |-> res.data]))
    /\ UNCHANGED <<orders, tracking, dbNow, now, frontend>>

\* the update restricted to active rows: .eq('id', id).eq('is_active', true)
deleteProduct_ActiveOnly(s) ==
    /\ \E id \in ProductIdInputs, fail \in BOOLEAN :
          LET matched == id \in DOMAIN products /\ products[id].is_active
              after == IF matched THEN SoftDeletedProducts(id) ELSE products
              rows == IF matched THEN <<[id |-> after[id].id]>> ELSE <<>>
              res == IF fail THEN Failed ELSE Single(rows)
          IN  /\ products' = IF fail THEN products ELSE after
              /\ Handle(s, "deleteProduct", id, Null,
                        IF res.error # NoError THEN errorHandler(res.error)
                        ELSE IF res.data = Null THEN ProductNotFound
                        ELSE Json(200, "success", "Product deleted successfully", Null))
    /\ UNCHANGED <<orders, tracking, dbNow, now, frontend>>

deleteProduct(s) ==
    /\ \E id \in ProductIdInputs, fail \in BOOLEAN :
          LET after == SoftDeletedProducts(id)
              rows == IF id \in DOMAIN after THEN <<[id |-> after[id].id]>> ELSE <<>>
              res == IF fail THEN Failed ELSE Single(rows)
          IN  /\ products' = IF fail THEN products ELSE after
              /\ Handle(s, "deleteProduct", id, Null,
                        IF res.error # NoError THEN errorHandler(res.error)
                        ELSE IF res.data = Null THEN ProductNotFound
                        ELSE Json(200, "success", "Product deleted successfully", Null))
    /\ UNCHANGED <<orders, tracking, dbNow, now, frontend>>

(***************************************************************************)
(* getDashboardStats (GET /api/admin/dashboard): five reads under          *)
(* Promise.all, then the response.                                         *)
(***************************************************************************)
RecentLimit == 5
DashboardReads == 1..5

RECURSIVE SeqOfOrders(_)
\* the rows of table orders, as a sequence
SeqOfOrders(ids) ==
    IF ids = {} THEN <<>>
    ELSE LET id == CHOOSE i \in ids : \A j \in ids : orders[i].created_at <= orders[j].created_at
         IN  <<orders[id]>> \o SeqOfOrders(ids \ {id})

OrderRows == SeqOfOrders(DOMAIN orders)

\* the count delivered inside data, as lines 193-196 read it
HeadData_CountObject(n) == [count |-> n]

\* select('id', { count: 'exact', head: true }): a HEAD request has no body,
\* so data is null and the number of rows is the result's own `count`
HeadData(n) == Null

CountResult(n, fail) ==
    IF fail THEN [data |-> Null, count |-> Null, error |-> StoreFailure]
    ELSE [data |-> HeadData(n), count |-> n, error |-> NoError]

\* null in the place of an array of rows: no array, and unlike every array
NullRows == [i \in {0} |-> NullText]

RowsResult(rows, fail) ==
    IF fail THEN [data |-> NullRows, count |-> Null, error |-> StoreFailure]
    ELSE [data |-> rows, count |-> Null, error |-> NoError]

\* .order('created_at', { ascending: false }).limit(5)
RecentFirst(rows) ==
    LET desc == Reverse(SortAscending(rows))
    IN  SubSeq(desc, 1, IF Len(desc) < RecentLimit THEN Len(desc) ELSE RecentLimit)

\* the k-th query of the Promise.all array, lines 176-184
DashboardQuery(k, fail) ==
    CASE k = 1 -> CountResult(Cardinality({p \in DOMAIN products : products[p].is_active}), fail)
      [] k = 2 -> CountResult(Cardinality(DOMAIN orders), fail)
      [] k = 3 -> RowsResult([i \in 1..Len(SelectSeq(OrderRows, LAMBDA o : o.status # "Cancelled")) |->
                                [total_amount |-> SelectSeq(OrderRows, LAMBDA o : o.status # "Cancelled")[i].total_amount]],
                             fail)
      [] k = 4 -> CountResult(Cardinality({o \in DOMAIN orders : orders[o].status = "Processing"}), fail)
      [] k = 5 -> RowsResult([i \in 1..Len(RecentFirst(OrderRows)) |->
                                [id |-> RecentFirst(OrderRows)[i].id,
                                 customer_name |-> RecentFirst(OrderRows)[i].customer_name,
                                 total_amount |-> RecentFirst(OrderRows)[i].total_amount,
                                 status |-> RecentFirst(OrderRows)[i].status,
                                 created_at |-> RecentFirst(OrderRows)[i].created_at]],
                             fail)

RECURSIVE SumAmounts(_)
\* revenue.reduce((sum, o) => sum + o.total_amount, 0)
SumAmounts(rows) ==
    IF rows = <<>> THEN 0 ELSE rows[1].total_amount + SumAmounts(Tail(rows))

\* revenue?.reduce(...) || 0; the data of a result is null exactly when the
\* read failed
TotalRevenue(result) == IF result.error # NoError THEN 0 ELSE SumAmounts(result.data)

\* lines 174 and 187-200: the destructuring keeps each result's data only;
\* reading .count of a null data throws TypeError into the catch
DashboardResponse(results) ==
    LET productsData == results[1].data
        ordersData == results[2].data
        revenue == results[3]
        pending == results[4].data
        recent == results[5].data
    IN  IF productsData = Null \/ ordersData = Null \/ pending = Null
        THEN errorHandler(TypeError)
        ELSE Json(200, "success", NullText,
                  [stats |-> [totalProducts |-> productsData.count,
                              totalOrders |-> ordersData.count,
                              totalRevenue |-> TotalRevenue(revenue),
                              pendingOrders |-> pending.count],
                   recentOrders |-> recent])

NoResults == [k \in {} |-> Null]

StartGetDashboardStats(s) ==
    /\ Begin(s, [NewReq("getDashboardStats", "reads", "", Null) EXCEPT !.local = NoResults])
    /\ UNCHANGED <<orders, tracking, products, dbNow, now, frontend>>

\* one of the five reads completes, in any order
GetDashboardStatsRead(s) ==
    /\ reqs[s].op = "getDashboardStats" /\ reqs[s].pc = "reads"
    /\ \E k \in DashboardReads \ DOMAIN reqs[s].local, fail \in BOOLEAN :
          LET results == [j \in DOMAIN reqs[s].local \cup {k} |->
                             IF j = k THEN DashboardQuery(k, fail) ELSE reqs[s].local[j]]
          IN  Continue(s, "reads", results)
    /\ UNCHANGED <<orders, tracking, products, dbNow, now, nreq, frontend>>

\* the handler answering at the first failed read, without the other reads
GetDashboardStatsRespond_FirstFailure(s) ==
    /\ reqs[s].op = "getDashboardStats" /\ reqs[s].pc = "reads"
    /\ \/ /\ DOMAIN reqs[s].local = DashboardReads
          /\ Respond(s, DashboardResponse(reqs[s].local))
       \/ /\ \E k \in DOMAIN reqs[s].local : reqs[s].local[k].error # NoError
          /\ Respond(s, errorHandler(StoreFailure))
    /\ UNCHANGED <<orders, tracking, products, dbNow, now, nreq, frontend>>

\* Promise.all has resolved
GetDashboardStatsRespond(s) ==
    /\ reqs[s].op = "getDashboardStats" /\ reqs[s].pc = "reads"
    /\ DOMAIN reqs[s].local = DashboardReads
    /\ Respond(s, DashboardResponse(reqs[s].local))
    /\ UNCHANGED <<orders, tracking, products, dbNow, now, nreq, frontend>>

(***************************************************************************)
(* getAllOrders (GET /api/admin/orders?status&search&page&limit).          *)
(* req.query holds strings: a supplied page or limit is the string of its  *)
(* digits (kept as the sequence of its digit characters), an absent one is *)
(* undefined and takes the numeric default.                                *)
(***************************************************************************)
Undefined == [type |-> "undefined"]
JsNumber(n) == [type |-> "number", num |-> n]
JsDigits(cs) == [type |-> "string", chars |-> cs]
JsText(t) == [type |-> "string", text |-> t]

RECURSIVE DigitsValue(_)
\* Number("12") = 12, Number("") = 0
DigitsValue(cs) ==
    IF cs = <<>> THEN 0
    ELSE DigitsValue(SubSeq(cs, 1, Len(cs) - 1)) * 10 + cs[Len(cs)]

RECURSIVE NumberToDigits(_)
\* String(12) = "12", for a number that is not negative
NumberToDigits(n) ==
    IF n < 10 THEN <<n>> ELSE NumberToDigits(n \div 10) \o <<n % 10>>

ToNumber(v) == IF v.type = "number" THEN v.num ELSE DigitsValue(v.chars)
ToDigits(v) == IF v.type = "number" THEN NumberToDigits(v.num) ELSE v.chars

\* a - b and a * b convert both operands to numbers
JsSub(a, b) == JsNumber(ToNumber(a) - ToNumber(b))
JsMul(a, b) == JsNumber(ToNumber(a) * ToNumber(b))

\* a + b concatenates as soon as one operand is a string
JsAdd(a, b) ==
    IF a.type = "string" \/ b.type = "string"
    THEN JsDigits(ToDigits(a) \o ToDigits(b))
    ELSE JsNumber(a.num + b.num)

\* const { x = d } = req.query
Default(v, d) == IF v = Undefined THEN JsNumber(d) ELSE v

DefaultPage == 1
DefaultLimit == 10

\* if (status), if (search)
Truthy(v) == v # Undefined /\ v # JsText("")

\* the texts that surround a search term in the rows of the model
Affixes == {"", "name of ", "email of ", "O", "1", "2", "3"}

\* column.ilike.*term* : the term occurs in the text (terms and texts of the
\* model are written in one case)
Ilike(text, term) == \E pre \in Affixes, post \in Affixes : text = pre \o term \o post

\* .range(from, to): the rows at positions from..to, counted from 0
Range(rows, from, to) ==
    SubSeq(rows, from + 1, IF to + 1 < Len(rows) THEN to + 1 ELSE Len(rows))

\* lines 93-94 and 105: the bounds handed to .range()
RangeBounds(query) ==
    LET page == Default(query.page, DefaultPage)
        limit == Default(query.limit, DefaultLimit)
        offset == JsMul(JsSub(page, JsNumber(1)), limit)
    IN  [from |-> ToNumber(offset),
         to |-> ToNumber(JsSub(JsAdd(offset, limit), JsNumber(1)))]

\* lines 96-117: the query, its two optional filters, ordering and range
OrdersQuery(query) ==
    LET byStatus == IF Truthy(query.status)
                    THEN SelectSeq(OrderRows, LAMBDA o : o.status = query.status.text)
                    ELSE OrderRows
        bySearch == IF Truthy(query.search)
                    THEN SelectSeq(byStatus,
                                   LAMBDA o : \/ Ilike(o.id, query.search.text)
                                              \/ Ilike(o.customer_name, query.search.text)
                                              \/ Ilike(o.customer_email, query.search.text))
                    ELSE byStatus
        listed == Reverse(SortAscending(bySearch))
        bounds == RangeBounds(query)
        page == Range(listed, bounds.from, bounds.to)
    IN  [i \in 1..Len(page) |-> [order |-> page[i], order_items |-> <<>>]]

PageInputs == {Undefined, JsDigits(<<1>>), JsDigits(<<2>>), JsDigits(<<3>>)}
LimitInputs == {Undefined, JsDigits(<<1>>), JsDigits(<<2>>)}
StatusFilterInputs == {Undefined, JsText("Processing")}
SearchInputs == {Undefined, JsText("u1")}

getAllOrders(s) ==
    /\ \E page \in PageInputs, limit \in LimitInputs, status \in StatusFilterInputs,
          search \in SearchInputs, fail \in BOOLEAN :
          LET query == [page |-> page, limit |-> limit, status |-> status, search |-> search]
              res == IF fail THEN Failed
                     ELSE [data |-> OrdersQuery(query), error |-> NoError]
          IN  Begin(s, [NewReq("getAllOrders", "done", "", query) EXCEPT
                           !.local = RangeBounds(query),
                           !.resp = IF res.error # NoError THEN errorHandler(res.error)
                                    ELSE Json(200, "success", NullText,
                                              [orders |-> res.data])])
    /\ UNCHANGED <<orders, tracking, products, dbNow, now, frontend>>

(***************************************************************************)
(* The frontend script: session globals, ApiClient, login, register,       *)
(* logout, addToCart, updateCartDisplay and the page-load handler.  An     *)
(* async function runs without interruption up to its next await; `calls`  *)
(* holds the functions suspended at one.  The auth and cart endpoints are  *)
(* known by the responses the script reads: {status, data: {user, token}}  *)
(* and {status, data: {cartItems}}.                                        *)
(***************************************************************************)
Customer == [id |-> "u1", role |-> "customer"]
Admin == [id |-> "a1", role |-> "admin"]
Newcomer == [id |-> "u3", role |-> "customer"]
Accounts == {Customer, Admin}

\* the token the auth endpoints issue for a user
TokenOf(user) == "token of " \o user.id
UserIdOfToken(token) ==
    CHOOSE id \in {"u1", "a1", "u3"} : token = "token of " \o id

CartItem == [product_id |-> "PRD000001", quantity |-> 1]
EmptyCarts == [id \in {"u1", "a1", "u3"} |-> <<>>]

\* JSON.stringify(currentUser) and JSON.parse(savedUser)
JsonStringify(v) == [json |-> v]
JsonParse(item) == item.json

EmptyStorage == [authToken |-> NullText, currentUser |-> Null]
StoredSession(user) ==
    [authToken |-> TokenOf(user), currentUser |-> JsonStringify(user)]

\* ApiClient.setToken, lines 59-66: its effect on localStorage
SetTokenStorage(storage, token) ==
    [storage EXCEPT !.authToken = token]

IdleCall == [fn |-> "idle", at |-> "idle", token |-> NullText, arg |-> Null]
NoCalls == [c \in 1..2 |-> IdleCall]
Calls == DOMAIN calls

\* the globals right after the script has loaded with the given storage:
\* lines 2-8, the ApiClient constructor (line 56) and lines 684-692
SessionAfterLoad(storage) ==
    IF storage.currentUser # Null /\ storage.authToken # NullText
    THEN [currentUser |-> JsonParse(storage.currentUser),
          token |-> storage.authToken,
          isLoggedIn |-> TRUE,
          userRole |-> JsonParse(storage.currentUser).role]
    ELSE [currentUser |-> Null,
          token |-> storage.authToken,
          isLoggedIn |-> FALSE,
          userRole |-> "customer"]

backend == <<orders, tracking, products, dbNow, now, reqs>>

\* the browser loads the page (again): a fresh script, the storage kept
PageLoad ==
    /\ LET session == SessionAfterLoad(localStorage)
       IN  /\ currentUser' = session.currentUser
           /\ apiClient' = [token |-> session.token]
           /\ isLoggedIn' = session.isLoggedIn
           /\ userRole' = session.userRole
    /\ cart' = <<>>
    /\ calls' = NoCalls
    /\ UNCHANGED <<backend, nreq, localStorage, serverCart>>

\* an async function is entered by the user and suspends at its first await;
\* apiClient.request builds the Authorization header before it sends
Suspend(c, fn, arg) ==
    /\ calls[c].fn = "idle"
    /\ nreq < MaxRequests
    /\ calls' = [calls EXCEPT ![c] = [fn |-> fn, at |-> "post", token |-> apiClient.token,
                                      arg |-> arg]]
    /\ nreq' = nreq + 1

\* updateCartDisplay from its entry to its await, lines 320-324, in slot c
FetchCart(c, fn) ==
    IF isLoggedIn'
    THEN calls' = [calls EXCEPT ![c] = [fn |-> fn, at |-> "get", token |-> apiClient'.token,
                                        arg |-> Null]]
    ELSE calls' = [calls EXCEPT ![c] = IdleCall]

\* the session taken without the role
SessionSet_RoleKept(user) ==
    /\ currentUser' = user
    /\ apiClient' = [token |-> TokenOf(user)]
    /\ localStorage' = [SetTokenStorage(localStorage, TokenOf(user))
                           EXCEPT !.currentUser = JsonStringify(user)]
    /\ isLoggedIn' = TRUE
    /\ userRole' = userRole

\* lines 137-142 and 164-169: the session taken from a success response
SessionSet(user) ==
    /\ currentUser' = user
    /\ apiClient' = [token |-> TokenOf(user)]
    /\ localStorage' = [SetTokenStorage(localStorage, TokenOf(user))
                           EXCEPT !.currentUser = JsonStringify(user)]
    /\ isLoggedIn' = TRUE
    /\ userRole' = user.role

\* login up to its await, line 135
login(c) ==
    /\ \E account \in Accounts : Suspend(c, "login", account)
    /\ UNCHANGED <<backend, currentUser, isLoggedIn, userRole, cart, apiClient,
                   localStorage, serverCart>>

\* login after its await, lines 137-157; showPage('dashboard') calls
\* updateCartDisplay, showPage('admin') does not
loginAfterPost(c) ==
    /\ calls[c].fn = "login"
    /\ \E ok \in BOOLEAN :
          IF ok
          THEN /\ SessionSet(calls[c].arg)
               /\ IF calls[c].arg.role = "admin"
                  THEN calls' = [calls EXCEPT ![c] = IdleCall]
                  ELSE FetchCart(c, "updateCartDisplay")
          ELSE /\ calls' = [calls EXCEPT ![c] = IdleCall]
               /\ UNCHANGED <<currentUser, isLoggedIn, userRole, apiClient, localStorage>>
    /\ UNCHANGED <<backend, nreq, cart, serverCart>>

\* register up to its await, line 162
register(c) ==
    /\ Suspend(c, "register", Newcomer)
    /\ UNCHANGED <<backend, currentUser, isLoggedIn, userRole, cart, apiClient,
                   localStorage, serverCart>>

\* register after its await, lines 164-177
registerAfterPost(c) ==
    /\ calls[c].fn = "register"
    /\ \E ok \in BOOLEAN :
          IF ok
          THEN /\ SessionSet(calls[c].arg)
               /\ FetchCart(c, "updateCartDisplay")
          ELSE /\ calls' = [calls EXCEPT ![c] = IdleCall]
               /\ UNCHANGED <<currentUser, isLoggedIn, userRole, apiClient, localStorage>>
    /\ UNCHANGED <<backend, nreq, cart, serverCart>>

\* lines 181-190
logout ==
    /\ currentUser' = Null
    /\ isLoggedIn' = FALSE
    /\ userRole' = "customer"
    /\ cart' = <<>>
    /\ apiClient' = [token |-> NullText]
    /\ localStorage' = [SetTokenStorage(localStorage, NullText) EXCEPT !.currentUser = Null]
    /\ UNCHANGED <<backend, nreq, calls, serverCart>>

\* updateCartDisplay entered by showPage('dashboard'), lines 358-361
updateCartDisplay(c) ==
    /\ isLoggedIn
    /\ calls[c].fn = "idle"
    /\ nreq < MaxRequests
    /\ nreq' = nreq + 1
    /\ UNCHANGED <<backend, currentUser, isLoggedIn, userRole, cart, apiClient,
                   localStorage, serverCart>>
    /\ FetchCart(c, "updateCartDisplay")

\* updateCartDisplay after its await, lines 325-332, also when awaited by
\* addToCart (line 313)
updateCartDisplayAfterGet(c) ==
    /\ calls[c].at = "get"
    /\ \E ok \in BOOLEAN :
          IF ok /\ calls[c].token # NullText
          THEN cart' = serverCart[UserIdOfToken(calls[c].token)]
          ELSE cart' = cart
    /\ calls' = [calls EXCEPT ![c] = IdleCall]
    /\ UNCHANGED <<backend, nreq, currentUser, isLoggedIn, userRole, apiClient,
                   localStorage, serverCart>>

\* addToCart up to its await, lines 299-306
addToCart(c) ==
    /\ isLoggedIn
    /\ Suspend(c, "addToCart", CartItem)
    /\ UNCHANGED <<backend, currentUser, isLoggedIn, userRole, cart, apiClient,
                   localStorage, serverCart>>

\* addToCart after its POST, lines 310-317
addToCartAfterPost(c) ==
    /\ calls[c].fn = "addToCart" /\ calls[c].at = "post"
    /\ UNCHANGED <<backend, nreq, currentUser, isLoggedIn, userRole, cart, apiClient,
                   localStorage>>
    /\ \E ok \in BOOLEAN :
          IF ok /\ calls[c].token # NullText
          THEN /\ serverCart' = [serverCart EXCEPT ![UserIdOfToken(calls[c].token)] =
                                     Append(@, calls[c].arg)]
               /\ FetchCart(c, "addToCart")
          ELSE /\ serverCart' = serverCart
               /\ calls' = [calls EXCEPT ![c] = IdleCall]

(***************************************************************************)
(* The system.  Requests are served one at a time (one slot).  The order   *)
(* handlers leave products unchanged and the product handlers leave orders *)
(* and order_tracking unchanged, and the dashboard writes nothing, so each *)
(* part is explored with the handlers that write what it reads.            *)
(***************************************************************************)
\* Order Status Engine and Tracking Query Service
Next ==
    \/ \E s \in Slots : StartUpdateOrderStatus(s)
    \/ \E s \in Slots : UpdateOrderStatusUpdate(s)
    \/ \E s \in Slots : UpdateOrderStatusInsert(s)
    \/ \E s \in Slots : StartGetOrderTracking(s)
    \/ \E s \in Slots : GetOrderTrackingOrder(s)
    \/ \E s \in Slots : GetOrderTrackingHistory(s)
    \/ \E s \in Slots : StartGetUserOrderTracking(s)
    \/ \E s \in Slots : GetUserOrderTrackingOrder(s)
    \/ \E s \in Slots : GetUserOrderTrackingHistory(s)
    \/ \E s \in Slots : StartAddTrackingUpdate(s)
    \/ \E s \in Slots : AddTrackingUpdateOrder(s)
    \/ \E s \in Slots : AddTrackingUpdateInsert(s)

Spec == Init /\ [][Next]_vars

\* Product management
NextProducts ==
    \/ \E s \in Slots : createProduct(s)
    \/ \E s \in Slots : updateProduct(s)
    \/ \E s \in Slots : deleteProduct(s)

SpecProducts == Init /\ [][NextProducts]_vars

\* Dashboard Aggregator, with the writes that change what it reads
NextDashboard ==
    \/ \E s \in Slots : StartGetDashboardStats(s)
    \/ \E s \in Slots : GetDashboardStatsRead(s)
    \/ \E s \in Slots : GetDashboardStatsRespond(s)
    \/ \E s \in Slots : StartUpdateOrderStatus(s)
    \/ \E s \in Slots : UpdateOrderStatusUpdate(s)
    \/ \E s \in Slots : UpdateOrderStatusInsert(s)
    \/ \E s \in Slots : deleteProduct(s)

SpecDashboard == Init /\ [][NextDashboard]_vars

\* two requests can be in the server at a time
InitTwoSlots ==
    /\ \E f \in Fixtures :
          /\ orders = f.orders
          /\ tracking = f.tracking
          /\ products = f.products
    /\ dbNow = FirstDbNow
    /\ now = FirstNow
    /\ reqs = [s \in 1..2 |-> IdleReq]
    /\ nreq = 0
    /\ NoPage

\* no other request is in the server
Alone(s) == \A t \in Slots \ {s} : Free(t)

\* the three read entry points alone, a lookup and its repetition side by
\* side; the dashboard, with its five reads, is repeated after it has answered
NextReads ==
    \/ \E s \in Slots : StartGetOrderTracking(s)
    \/ \E s \in Slots : GetOrderTrackingOrder(s)
    \/ \E s \in Slots : GetOrderTrackingHistory(s)
    \/ \E s \in Slots : StartGetUserOrderTracking(s)
    \/ \E s \in Slots : GetUserOrderTrackingOrder(s)
    \/ \E s \in Slots : GetUserOrderTrackingHistory(s)
    \/ \E s \in Slots : Alone(s) /\ StartGetDashboardStats(s)
    \/ \E s \in Slots : GetDashboardStatsRead(s)
    \/ \E s \in Slots : GetDashboardStatsRespond(s)

SpecReads == InitTwoSlots /\ [][NextReads]_vars

\* the order listing starts from up to three orders
ThreeOrders ==
    [id \in {"ORD1", "ORD2", "ORD3"} |->
        CASE id = "ORD1" -> MkOrder("ORD1", "Processing", 10, "u1", 1)
          [] id = "ORD2" -> MkOrder("ORD2", "Shipped", 20, "u2", 2)
          [] id = "ORD3" -> MkOrder("ORD3", "Processing", 30, "u1", 3)]

InitListing ==
    /\ orders \in {NoOrders, OneOrder, TwoOrders("Processing"), ThreeOrders}
    /\ tracking = <<>>
    /\ products = NoProducts
    /\ dbNow = FirstDbNow
    /\ now = FirstNow
    /\ reqs = [s \in 1..1 |-> IdleReq]
    /\ nreq = 0
    /\ NoPage

\* Order listing, with the write that changes what it lists
NextListing ==
    \/ \E s \in Slots : getAllOrders(s)
    \/ \E s \in Slots : StartUpdateOrderStatus(s)
    \/ \E s \in Slots : UpdateOrderStatusUpdate(s)
    \/ \E s \in Slots : UpdateOrderStatusInsert(s)

SpecListing == InitListing /\ [][NextListing]_vars

\* Status updates and tracking lookups of two requests interleaved at their
\* awaits
NextConcurrent ==
    \/ \E s \in Slots : StartUpdateOrderStatus(s)
    \/ \E s \in Slots : UpdateOrderStatusUpdate(s)
    \/ \E s \in Slots : UpdateOrderStatusInsert(s)
    \/ \E s \in Slots : StartGetOrderTracking(s)
    \/ \E s \in Slots : GetOrderTrackingOrder(s)
    \/ \E s \in Slots : GetOrderTrackingHistory(s)

SpecConcurrent == InitTwoSlots /\ [][NextConcurrent]_vars

\* Every handler that writes, with the lookups and the dashboard, requests
\* served one at a time
NextAll ==
    \/ Next
    \/ NextProducts
    \/ \E s \in Slots : StartGetDashboardStats(s)
    \/ \E s \in Slots : GetDashboardStatsRead(s)
    \/ \E s \in Slots : GetDashboardStatsRespond(s)

\* a store in which every handler finds rows to act on: two orders, their
\* tracking entries and an active product
InitAll ==
    /\ orders = TwoOrders("Processing")
    /\ tracking = TwoOrdersTracking
    /\ products = OneProduct(TRUE)
    /\ dbNow = FirstDbNow
    /\ now = FirstNow
    /\ reqs = [s \in 1..1 |-> IdleReq]
    /\ nreq = 0
    /\ NoPage

SpecAll == InitAll /\ [][NextAll]_vars

\* Dashboard Aggregator alone.  Each of the five queries resolves, with rows
\* or with an error, and Promise.all resolves once all five have: a request
\* that has been started is carried on.
NextAggregator ==
    \/ \E s \in Slots : StartGetDashboardStats(s)
    \/ \E s \in Slots : GetDashboardStatsRead(s)
    \/ \E s \in Slots : GetDashboardStatsRespond(s)

FairSpecAggregator ==
    /\ Init
    /\ [][NextAggregator]_vars
    /\ WF_vars(\E s \in Slots : GetDashboardStatsRead(s))
    /\ WF_vars(\E s \in Slots : GetDashboardStatsRespond(s))

\* the page is loaded with the storage an earlier visit left: none, or the
\* session of a customer or of an admin; the customer's cart on the server
\* is empty or holds an item
InitFrontend ==
    /\ orders = NoOrders /\ tracking = <<>> /\ products = NoProducts
    /\ dbNow = FirstDbNow /\ now = FirstNow
    /\ reqs = [s \in 1..1 |-> IdleReq]
    /\ nreq = 0
    /\ localStorage \in {EmptyStorage, StoredSession(Customer), StoredSession(Admin)}
    /\ serverCart \in {EmptyCarts, [EmptyCarts EXCEPT !["u1"] = <<CartItem>>]}
    /\ currentUser = SessionAfterLoad(localStorage).currentUser
    /\ apiClient = [token |-> SessionAfterLoad(localStorage).token]
    /\ isLoggedIn = SessionAfterLoad(localStorage).isLoggedIn
    /\ userRole = SessionAfterLoad(localStorage).userRole
    /\ cart = <<>>
    /\ calls = NoCalls

\* the frontend script in one browser tab
NextFrontend ==
    \/ PageLoad
    \/ logout
    \/ \E c \in Calls : login(c)
    \/ \E c \in Calls : loginAfterPost(c)
    \/ \E c \in Calls : register(c)
    \/ \E c \in Calls : registerAfterPost(c)
    \/ \E c \in Calls : updateCartDisplay(c)
    \/ \E c \in Calls : updateCartDisplayAfterGet(c)
    \/ \E c \in Calls : addToCart(c)
    \/ \E c \in Calls : addToCartAfterPost(c)

SpecFrontend == InitFrontend /\ [][NextFrontend]_vars

(***************************************************************************)
(* Properties.                                                             *)
(***************************************************************************)
IsSorted(rows) ==
    \A i, j \in 1..Len(rows) : i < j => rows[i].created_at <= rows[j].created_at

\* the description the status table documents: the table value, else the default text
DocumentedDescription(status) ==
    IF status \in DOMAIN StatusTable THEN StatusTable[status]
    ELSE DefaultDescription(status)

\* the request of slot s was answered by the store's own failure
StoreFailed(s) == reqs[s].resp.code = 500 /\ reqs[s].resp.message = StoreFailure

\* C1 (state part): after a successful updateOrderStatus to status X the
\* order's status is X and the last entry of its history, ordered by creation
\* time, is {order_id, status: X, description: table value or default text}.
C1_Post ==
    \A s \in Slots :
        (Done(s, "updateOrderStatus") /\ reqs[s].resp.code = 200) =>
            LET history == OrderByCreatedAt(TrackingByOrderId(reqs[s].id))
            IN  /\ reqs[s].id \in DOMAIN orders
                /\ orders[reqs[s].id].status = reqs[s].arg.status
                /\ reqs[s].resp.data.order.status = reqs[s].arg.status
                /\ history # <<>>
                /\ history[Len(history)].order_id = reqs[s].id
                /\ history[Len(history)].status = reqs[s].arg.status
                /\ history[Len(history)].description
                       = DocumentedDescription(reqs[s].arg.status)

\* C1 (step part): the step that completes a successful updateOrderStatus
\* appends exactly one tracking entry, and no other step of the handler
\* appends any.
C1_Step ==
    \A s \in Slots :
        reqs'[s].op = "updateOrderStatus" =>
            IF reqs[s].pc = "insert" /\ reqs'[s].pc = "done" /\ reqs'[s].resp.code = 200
            THEN Len(tracking') = Len(tracking) + 1
                 /\ SubSeq(tracking', 1, Len(tracking)) = tracking
            ELSE tracking' = tracking

\* C1: for every existing order and every target status X, a successful
\* updateOrderStatus leaves order.status = X and appends exactly one tracking
\* entry {order_id, status X, table description or default text}, which is
\* the last one of the order's history ordered by creation time.
C1_SuccessfulUpdateAppendsEntry == []C1_Post /\ [][C1_Step]_vars

\* C2: updateOrderStatus for an identifier that matches no order answers
\* 404 'Order not found' (unless the store itself failed), and changes no
\* order and inserts no tracking entry.
C2_MissingOrderIsNotFound ==
    \A s \in Slots :
        (Done(s, "updateOrderStatus") /\ reqs[s].id \notin DOMAIN orders
            /\ ~StoreFailed(s)) =>
                reqs[s].resp = OrderNotFound

\* the part of C2 that the handler keeps: a missing order causes no write
C2_MissingOrderWritesNothing ==
    [][\A s \in Slots :
         (reqs'[s].op = "updateOrderStatus" /\ reqs'[s].id \notin DOMAIN orders)
             => (orders' = orders /\ tracking' = tracking)]_vars

\* C3: the description derived by updateOrderStatus is the table value for
\* Confirmed, Shipped, Delivered and Cancelled and exactly
\* 'Order status updated to S' for every other status string S.
C3_DescriptionIsTableOrDefault ==
    \A s \in Slots :
        (reqs[s].op = "updateOrderStatus" /\ reqs[s].pc = "insert") =>
            reqs[s].local.description
                = [type |-> "string", value |-> DocumentedDescription(reqs[s].arg.status)]

\* C4: a customer-scoped lookup of an order owned by another user is answered
\* exactly as a lookup of an identifier that matches no order (the same 404
\* response), and a successful lookup returns only the caller's own order and
\* that order's entries.
C4_NotOwnedLooksMissing ==
    \A s \in Slots :
        Done(s, "getUserOrderTracking") =>
            /\ (reqs[s].id \notin DOMAIN orders => reqs[s].resp = OrderNotFound)
            /\ ((reqs[s].id \in DOMAIN orders
                    /\ orders[reqs[s].id].user_id # reqs[s].arg.user)
                  => reqs[s].resp = OrderNotFound)
            /\ (reqs[s].resp.code = 200 =>
                  /\ reqs[s].resp.data.order.id = reqs[s].id
                  /\ orders[reqs[s].id].user_id = reqs[s].arg.user
                  /\ \A i \in 1..Len(reqs[s].resp.data.trackingHistory) :
                        reqs[s].resp.data.trackingHistory[i].order_id = reqs[s].id)

\* the caller asked for an existing order of another user, which has entries
C4_Witness ==
    \E s \in Slots :
        /\ Done(s, "getUserOrderTracking")
        /\ reqs[s].id \in DOMAIN orders
        /\ orders[reqs[s].id].user_id # reqs[s].arg.user
        /\ TrackingByOrderId(reqs[s].id) # <<>>
        /\ reqs[s].resp = OrderNotFound

RECURSIVE SumOverOrders(_)
SumOverOrders(ids) ==
    IF ids = {} THEN 0
    ELSE LET id == CHOOSE i \in ids : TRUE
         IN  orders[id].total_amount + SumOverOrders(ids \ {id})

\* no read of the dashboard request of slot s failed
AllReadsSucceeded(s) ==
    \A k \in DOMAIN reqs[s].local : reqs[s].local[k].error = NoError

\* C5: the dashboard's totalRevenue equals the sum of total_amount over
\* exactly the orders whose status is not 'Cancelled'.
C5_RevenueIsSumOfNonCancelled ==
    \A s \in Slots :
        (Done(s, "getDashboardStats") /\ AllReadsSucceeded(s)) =>
            /\ reqs[s].resp.code = 200
            /\ reqs[s].resp.data.stats.totalRevenue
                  = SumOverOrders({o \in DOMAIN orders : orders[o].status # "Cancelled"})

\* C6: when one of the five dashboard reads fails, no success response is
\* sent: the request ends in the error handler with an Internal error and
\* carries no partial statistics.
C6_FailedReadGivesNoDashboard ==
    \A s \in Slots :
        (Done(s, "getDashboardStats") /\ ~AllReadsSucceeded(s)) =>
            /\ reqs[s].resp.code = 500
            /\ reqs[s].resp.status = "error"
            /\ reqs[s].resp.data = Null

\* the revenue read alone failed and the request ended in the error handler
C6_Witness ==
    \E s \in Slots :
        /\ Done(s, "getDashboardStats")
        /\ reqs[s].local[3].error = StoreFailure
        /\ \A k \in DashboardReads \ {3} : reqs[s].local[k].error = NoError
        /\ \E o \in DOMAIN orders : orders[o].status # "Cancelled"
        /\ reqs[s].resp.code = 500

\* C7: the tracking history returned by getOrderTracking and
\* getUserOrderTracking is sorted by creation time ascending, whatever the
\* order of the rows in the table.
C7_HistoryIsSorted ==
    \A s \in Slots :
        ((Done(s, "getOrderTracking") \/ Done(s, "getUserOrderTracking"))
            /\ reqs[s].resp.code = 200) =>
                IsSorted(reqs[s].resp.data.trackingHistory)

\* a history of several entries was returned for an order whose rows are not
\* in chronological order in the table
C7_Witness ==
    \E s \in Slots :
        /\ Done(s, "getOrderTracking") \/ Done(s, "getUserOrderTracking")
        /\ reqs[s].resp.code = 200
        /\ Len(reqs[s].resp.data.trackingHistory) >= 2
        /\ ~IsSorted(TrackingByOrderId(reqs[s].id))

OrderViewFields ==
    {"id", "status", "total_amount", "created_at", "customer_name", "customer_phone"}

\* C8: getOrderTracking answers 404 for an identifier that matches no order;
\* a successful answer carries the order reduced to exactly id, status,
\* total_amount, created_at, customer_name and customer_phone, with every
\* tracking entry of that order and no entry of another order.
C8_AdminLookup ==
    \A s \in Slots :
        Done(s, "getOrderTracking") =>
            /\ (reqs[s].id \notin DOMAIN orders => reqs[s].resp = OrderNotFound)
            /\ (reqs[s].resp.code = 200 =>
                  LET order == reqs[s].resp.data.order
                      history == reqs[s].resp.data.trackingHistory
                  IN  /\ reqs[s].id \in DOMAIN orders
                      /\ DOMAIN order = OrderViewFields
                      /\ \A f \in OrderViewFields : order[f] = orders[reqs[s].id][f]
                      /\ \A i \in 1..Len(history) : history[i].order_id = reqs[s].id
                      /\ Len(history) = Len(TrackingByOrderId(reqs[s].id))
                      /\ \A i \in 1..Len(tracking) :
                            tracking[i].order_id = reqs[s].id
                                => \E j \in 1..Len(history) : history[j] = tracking[i])

\* an order was returned with its entries while the table also holds entries
\* of another order
C8_Witness ==
    \E s \in Slots :
        /\ Done(s, "getOrderTracking")
        /\ reqs[s].resp.code = 200
        /\ reqs[s].resp.data.trackingHistory # <<>>
        /\ \E i \in 1..Len(tracking) : tracking[i].order_id # reqs[s].id

\* C9: no step removes a product row, and a successful deleteProduct changes
\* only is_active (to false) of the product it names: its other fields and
\* all other products stay as they were.
C9_SoftDeleteKeepsRows ==
    [][/\ DOMAIN products \subseteq DOMAIN products'
       /\ \A s \in Slots :
             (reqs'[s].op = "deleteProduct" /\ nreq' = nreq + 1) =>
                 /\ DOMAIN products' = DOMAIN products
                 /\ \A p \in DOMAIN products :
                       products'[p] =
                           IF p = reqs'[s].id /\ reqs'[s].resp.code = 200
                           THEN [products[p] EXCEPT !.is_active = FALSE]
                           ELSE products[p]]_vars

\* a product that was active has been deleted with success; it is still a row
C9_Witness ==
    \E s \in Slots :
        /\ Done(s, "deleteProduct")
        /\ reqs[s].resp.code = 200
        /\ reqs[s].id \in DOMAIN products
        /\ ~products[reqs[s].id].is_active
        /\ products[reqs[s].id].name = FixtureBody.name

\* C10: deleteProduct for an identifier that matches no product row answers
\* 404 'Product not found' (unless the store itself failed).
C10_MissingProductIsNotFound ==
    \A s \in Slots :
        (Done(s, "deleteProduct") /\ reqs[s].id \notin DOMAIN products
            /\ ~StoreFailed(s)) =>
                reqs[s].resp = ProductNotFound

\* the part of C10 that the handler keeps: a missing product changes nothing
C10_MissingProductChangesNothing ==
    [][\A s \in Slots :
         (reqs'[s].op = "deleteProduct" /\ nreq' = nreq + 1
              /\ reqs'[s].id \notin DOMAIN products)
             => products' = products]_vars

\* C11: when the store holds no orders, getDashboardStats answers with
\* success and totalRevenue = 0, pendingOrders = 0 and recentOrders = [].
C11_EmptyStoreDashboard ==
    \A s \in Slots :
        (Done(s, "getDashboardStats") /\ AllReadsSucceeded(s) /\ DOMAIN orders = {}) =>
            /\ reqs[s].resp.code = 200
            /\ reqs[s].resp.data.stats.totalRevenue = 0
            /\ reqs[s].resp.data.stats.pendingOrders = 0
            /\ Len(reqs[s].resp.data.recentOrders) = 0

\* C12: in every successful dashboard response totalProducts is the number
\* of products with is_active = true, totalOrders the number of all orders
\* and pendingOrders the number of orders whose status is 'Processing'.
C12_DashboardCounts ==
    \A s \in Slots :
        (Done(s, "getDashboardStats") /\ AllReadsSucceeded(s)) =>
            /\ reqs[s].resp.code = 200
            /\ reqs[s].resp.data.stats.totalProducts
                  = Cardinality({p \in DOMAIN products : products[p].is_active})
            /\ reqs[s].resp.data.stats.totalOrders = Cardinality(DOMAIN orders)
            /\ reqs[s].resp.data.stats.pendingOrders
                  = Cardinality({o \in DOMAIN orders : orders[o].status = "Processing"})

Min(a, b) == IF a < b THEN a ELSE b

\* C13: recentOrders holds min(5, number of orders) orders, the most recently
\* created ones in descending creation order, Cancelled orders included.
C13_RecentOrders ==
    \A s \in Slots :
        (Done(s, "getDashboardStats") /\ AllReadsSucceeded(s)) =>
            /\ reqs[s].resp.code = 200
            /\ LET recent == reqs[s].resp.data.recentOrders
               IN  /\ Len(recent) = Min(RecentLimit, Cardinality(DOMAIN orders))
                   /\ \A i, j \in 1..Len(recent) :
                         i < j => recent[i].created_at >= recent[j].created_at
                   /\ \A i \in 1..Len(recent) : recent[i].id \in DOMAIN orders
                   /\ \A o \in DOMAIN orders :
                         (\E i \in 1..Len(recent) : recent[i].id = o)
                         \/ (Len(recent) = RecentLimit
                             /\ \A i \in 1..Len(recent) :
                                   recent[i].created_at >= orders[o].created_at)

\* C15 (state part): addTrackingUpdate for an identifier that matches no
\* order answers 404; after a 201 the newest row of order_tracking carries the
\* request's order id, status and description verbatim and is the row sent back.
C15_Post ==
    \A s \in Slots :
        Done(s, "addTrackingUpdate") =>
            /\ (reqs[s].id \notin DOMAIN orders => reqs[s].resp = OrderNotFound)
            /\ (reqs[s].resp.code = 201 =>
                  /\ tracking # <<>>
                  /\ tracking[Len(tracking)].order_id = reqs[s].id
                  /\ tracking[Len(tracking)].status = reqs[s].arg.status
                  /\ tracking[Len(tracking)].description = reqs[s].arg.description
                  /\ reqs[s].resp.data.tracking = tracking[Len(tracking)])

\* C15 (step part): no step of addTrackingUpdate changes an order; the step
\* that ends it with 201 appends exactly one entry and no other step of it
\* appends any (none at all for an identifier that matches no order).
C15_Step ==
    \A s \in Slots :
        reqs'[s].op = "addTrackingUpdate" =>
            /\ orders' = orders
            /\ IF reqs[s].pc = "insert" /\ reqs'[s].pc = "done" /\ reqs'[s].resp.code = 201
               THEN /\ Len(tracking') = Len(tracking) + 1
                    /\ SubSeq(tracking', 1, Len(tracking)) = tracking
                    /\ reqs[s].id \in DOMAIN orders
               ELSE tracking' = tracking

\* C15: addTrackingUpdate on an existing order appends exactly one tracking
\* entry with the request's status and description verbatim (no status-table
\* lookup) and leaves the order record unchanged; on an identifier that
\* matches no order it answers 404 and appends nothing.
C15_ManualAppendIsRaw == []C15_Post /\ [][C15_Step]_vars

\* a manual entry whose status is a key of the status table was appended with
\* a description of its own, and the order's status is not that status
C15_Witness ==
    \E s \in Slots :
        /\ Done(s, "addTrackingUpdate")
        /\ reqs[s].resp.code = 201
        /\ reqs[s].arg.status \in DOMAIN StatusTable
        /\ reqs[s].arg.description # StatusTable[reqs[s].arg.status]
        /\ orders[reqs[s].id].status # reqs[s].arg.status

\* a lookup of slot s was answered after one of its store reads failed: the
\* error handler's answer, or 404 for an order its caller can see
LookupStoreFailed(s) ==
    \/ StoreFailed(s)
    \/ /\ reqs[s].resp = OrderNotFound
       /\ reqs[s].id \in DOMAIN orders
       /\ reqs[s].op = "getUserOrderTracking" =>
              orders[reqs[s].id].user_id = reqs[s].arg.user

ReadOps == {"getOrderTracking", "getUserOrderTracking", "getDashboardStats"}

\* C14 (state part): two completed read requests with the same entry point,
\* order id and caller, neither cut short by a store failure, carry the same
\* response.
C14_SameResponse ==
    \A s, t \in Slots :
        (/\ reqs[s].pc = "done" /\ reqs[t].pc = "done"
         /\ reqs[s].op \in ReadOps
         /\ reqs[s].op = reqs[t].op /\ reqs[s].id = reqs[t].id
         /\ reqs[s].arg = reqs[t].arg
         /\ ~LookupStoreFailed(s) /\ ~LookupStoreFailed(t))
            => reqs[s].resp = reqs[t].resp

\* C14 (step part): no step of a read request changes a table
C14_Frame ==
    (\E s \in Slots : reqs'[s].op \in ReadOps /\ reqs'[s] # reqs[s]) =>
        /\ orders' = orders
        /\ tracking' = tracking
        /\ products' = products

\* C14: getOrderTracking, getUserOrderTracking and getDashboardStats leave
\* orders, order_tracking and products unchanged, and a lookup repeated with
\* no write in between (and no store failure) gets the same response.
C14_ReadOnlyIdempotent == []C14_SameResponse /\ [][C14_Frame]_vars

\* a lookup of an existing order was answered 200 twice, once per slot
C14_Witness ==
    /\ Done(1, "getOrderTracking") /\ Done(2, "getOrderTracking")
    /\ reqs[1].id = reqs[2].id
    /\ reqs[1].resp.code = 200 /\ reqs[2].resp.code = 200
    /\ Len(reqs[1].resp.data.trackingHistory) > 0

\* C16: a store failure is always answered by the error handler (500), never
\* locally as another error class: a tracking lookup or manual append for an
\* order that exists (and, for the user lookup, belongs to the caller) is
\* answered with its success response or with the error handler's 500, never
\* with 404.
C16_StoreFailureIsInternal ==
    \A s \in Slots :
        (/\ reqs[s].pc = "done"
         /\ reqs[s].op \in {"getOrderTracking", "getUserOrderTracking", "addTrackingUpdate"}
         /\ reqs[s].id \in DOMAIN orders
         /\ reqs[s].op = "getUserOrderTracking" =>
                orders[reqs[s].id].user_id = reqs[s].arg.user)
            => \/ reqs[s].resp.code \in {200, 201}
               \/ reqs[s].resp = errorHandler(StoreFailure)

\* the orders a listing request asks for, newest first
Listed(query) ==
    Reverse(SortAscending(SelectSeq(OrderRows,
        LAMBDA o : /\ Truthy(query.status) => o.status = query.status.text
                   /\ Truthy(query.search) =>
                         \/ Ilike(o.id, query.search.text)
                         \/ Ilike(o.customer_name, query.search.text)
                         \/ Ilike(o.customer_email, query.search.text))))

\* C17: for page p >= 1 and limit l >= 1, supplied or defaulted (1, 10),
\* getAllOrders requests exactly positions (p-1)*l .. p*l-1 of the matching
\* orders sorted by creation time descending, and its response holds those
\* rows and never more than l orders.
C17_Paginated ==
    \A s \in Slots :
        (Done(s, "getAllOrders") /\ reqs[s].resp.code = 200) =>
            LET p == ToNumber(Default(reqs[s].arg.page, DefaultPage))
                l == ToNumber(Default(reqs[s].arg.limit, DefaultLimit))
                rows == reqs[s].resp.data.orders
                all == Listed(reqs[s].arg)
            IN  /\ reqs[s].local = [from |-> (p - 1) * l, to |-> p * l - 1]
                /\ Len(rows) <= l
                /\ [i \in 1..Len(rows) |-> rows[i].order]
                     = SubSeq(all, (p - 1) * l + 1, Min(p * l, Len(all)))

\* updateOrderStatus of slot s ended with an error after its order update
\* had succeeded
InsertFailedAfterUpdate(s) ==
    /\ Done(s, "updateOrderStatus")
    /\ reqs[s].resp.code = 500
    /\ reqs[s].local # Null

\* C18 (state part): after a tracking insert that failed, the request has
\* the error handler's answer and the order still carries the new status and
\* the new updated_at.
C18_Post ==
    \A s \in Slots :
        InsertFailedAfterUpdate(s) =>
            /\ reqs[s].resp.status = "error"
            /\ orders[reqs[s].id].status = reqs[s].arg.status
            /\ orders[reqs[s].id].updated_at = reqs[s].arg.updated_at

\* C18 (step part): the step in which the insert fails writes nothing: it
\* neither restores the order nor appends an entry.
C18_Step ==
    \A s \in Slots :
        (/\ reqs[s].op = "updateOrderStatus" /\ reqs[s].pc = "insert"
         /\ reqs'[s].pc = "done" /\ reqs'[s].resp.code = 500)
            => orders' = orders /\ tracking' = tracking

\* C18: when the tracking insert of updateOrderStatus fails after the order
\* update succeeded, the request ends with an error, the order keeps the new
\* status and updated_at (no rollback) and no tracking entry is written.
C18_NoRollback == []C18_Post /\ [][C18_Step]_vars

\* the store refused the insert, and the order now has a status for which
\* its history holds no entry
C18_Witness ==
    \E s \in Slots :
        /\ InsertFailedAfterUpdate(s)
        /\ reqs[s].resp = errorHandler(StoreFailure)
        /\ orders[reqs[s].id].status = "Shipped"
        /\ orders[reqs[s].id].updated_at >= FirstNow
        /\ TrackingByOrderId(reqs[s].id) # <<>>
        /\ \A i \in 1..Len(tracking) :
              tracking[i].order_id = reqs[s].id => tracking[i].status # "Shipped"

\* a request of slot s ended with the error handler's answer
Errored(s) == reqs[s].pc = "done" /\ reqs[s].resp.code = 500

\* C19: a status change and its tracking entry are observed together or not
\* at all: when the only requests so far are one lookup and one status update
\* that has not failed, the lookup returns an order written by the update
\* exactly when the history it returns holds the entry appended by the update.
C19_ObservedTogether ==
    \A s, t \in Slots :
        (/\ nreq = 2
         /\ Done(s, "getOrderTracking") /\ reqs[s].resp.code = 200
         /\ reqs[t].op = "updateOrderStatus" /\ ~Errored(t))
            => LET history == reqs[s].resp.data.trackingHistory
               IN  (reqs[s].local.order.updated_at >= FirstNow)
                      <=> (\E i \in 1..Len(history) : history[i].created_at >= FirstDbNow)

\* C20: once two concurrent status updates of the same order, the only
\* requests so far, have both succeeded, the status of the last tracking entry of that order equals
\* order.status.
C20_LastEntryIsStatus ==
    (/\ nreq = 2
     /\ Done(1, "updateOrderStatus") /\ Done(2, "updateOrderStatus")
     /\ reqs[1].resp.code = 200 /\ reqs[2].resp.code = 200
     /\ reqs[1].id = reqs[2].id)
        => LET history == OrderByCreatedAt(TrackingByOrderId(reqs[1].id))
           IN  history[Len(history)].status = orders[reqs[1].id].status

\* the fields of an order that no handler writes
FixedOrderFields(o) ==
    [id |-> o.id, total_amount |-> o.total_amount, user_id |-> o.user_id,
     created_at |-> o.created_at, customer_name |-> o.customer_name,
     customer_phone |-> o.customer_phone, customer_email |-> o.customer_email]

\* C21: whatever handler takes a step (status update, manual tracking
\* append, lookup, dashboard read, product operation), no order is deleted,
\* every tracking entry that existed still exists in its place with the same
\* order_id, status and description, and an order changes in no field other
\* than status and updated_at.
C21_AppendOnly ==
    [][/\ DOMAIN orders' = DOMAIN orders
       /\ \A id \in DOMAIN orders :
             FixedOrderFields(orders'[id]) = FixedOrderFields(orders[id])
       /\ Len(tracking') >= Len(tracking)
       /\ \A i \in 1..Len(tracking) : tracking'[i] = tracking[i]]_vars

\* an order has been given another status and a history that already had
\* entries has grown by a manual entry
C21_Witness ==
    /\ \E id \in DOMAIN orders : orders[id].updated_at >= FirstNow
    /\ \E i \in 1..Len(tracking) :
          /\ tracking[i].created_at >= FirstDbNow
          /\ tracking[i].description = "Left the warehouse"
          /\ \E j \in 1..(i - 1) : tracking[j].order_id = tracking[i].order_id

\* C22: every successful order update of updateOrderStatus sets updated_at
\* to a value strictly greater than the one the order had before, also when
\* two updates read the same clock value or are applied in the opposite order
\* of their clock reads.
C22_UpdatedAtIncreases ==
    [][\A s \in Slots :
          (/\ reqs[s].op = "updateOrderStatus"
           /\ reqs[s].pc = "update" /\ reqs'[s].pc = "insert")
              => orders'[reqs[s].id].updated_at > orders[reqs[s].id].updated_at]_vars

\* C23: deleteProduct selects by identifier only, so deleting a product that
\* is already inactive succeeds with 200 (unless the store itself failed) and
\* leaves the store exactly as it was after the first delete.
C23_SecondDeleteIsIdempotent ==
    [][\A s \in Slots :
          (/\ reqs'[s].op = "deleteProduct" /\ nreq' = nreq + 1
           /\ reqs'[s].id \in DOMAIN products
           /\ ~products[reqs'[s].id].is_active
           /\ reqs'[s].resp # errorHandler(StoreFailure))
              => /\ reqs'[s].resp = Json(200, "success", "Product deleted successfully", Null)
                 /\ products' = products
                 /\ orders' = orders /\ tracking' = tracking]_vars

\* the product that was inactive from the start has been deleted again, with
\* success, by the second request served
C23_Witness ==
    \E s \in Slots :
        /\ tracking = OneOrderTracking
        /\ nreq = 2
        /\ Done(s, "deleteProduct")
        /\ reqs[s].resp.code = 200
        /\ reqs[s].id \in DOMAIN products
        /\ ~products[reqs[s].id].is_active

\* C24 (state part): a dashboard request that has answered has all five
\* results in hand and carries one response, the snapshot or the error; one
\* that is still reading carries none, and any read it still misses can be
\* the next to complete.
C24_Post ==
    \A s \in Slots :
        reqs[s].op = "getDashboardStats" =>
            /\ reqs[s].pc = "done" =>
                  /\ DOMAIN reqs[s].local = DashboardReads
                  /\ reqs[s].resp # NoResp
                  /\ reqs[s].resp.code \in {200, 500}
            /\ reqs[s].pc = "reads" =>
                  /\ reqs[s].resp = NoResp
                  /\ \A k \in DashboardReads \ DOMAIN reqs[s].local :
                        ENABLED (/\ GetDashboardStatsRead(s)
                                 /\ DOMAIN reqs'[s].local = DOMAIN reqs[s].local \cup {k})

\* C24 (step part): a response, once sent, is not followed by another one
\* for the same request, and a result, once in, is kept.
C24_Step ==
    \A s \in Slots :
        (reqs[s].op = "getDashboardStats" /\ nreq' = nreq) =>
            /\ reqs[s].pc = "done" => reqs'[s] = reqs[s]
            /\ reqs[s].pc = "reads" =>
                  \A k \in DOMAIN reqs[s].local :
                      k \in DOMAIN reqs'[s].local /\ reqs'[s].local[k] = reqs[s].local[k]

\* C24: getDashboardStats answers only after all five reads have completed,
\* in whatever order they complete, and every request gets exactly one
\* response: never a second one, and never none.
C24_OneResponseAfterAllReads ==
    /\ []C24_Post
    /\ [][C24_Step]_vars
    /\ (reqs[1].pc = "reads") ~> (reqs[1].pc = "done")

\* the fifth and the third read have completed before the others
C24_Witness ==
    \E s \in Slots :
        /\ reqs[s].op = "getDashboardStats" /\ reqs[s].pc = "reads"
        /\ DOMAIN reqs[s].local = {3, 5}
        /\ reqs[s].local[3].error # NoError

\* C25: whenever the user is logged out the global cart is empty
C25_LoggedOutCartEmpty == ~isLoggedIn => cart = <<>>

\* C26 (state part): isLoggedIn exactly when currentUser is non-null and the
\* API client holds a token; userRole is currentUser.role when logged in and
\* 'customer' otherwise.
C26_Post ==
    /\ isLoggedIn <=> (currentUser # Null /\ apiClient.token # NullText)
    /\ userRole = IF isLoggedIn THEN currentUser.role ELSE "customer"

\* C26 (step part): when a login or register call ends, either the session
\* is the one of its response (user, token, flag and role set together) or
\* every session global is as before.
C26_Step ==
    \A c \in Calls :
        (/\ calls[c].fn \in {"login", "register"}
         /\ calls'[c] # calls[c]
         /\ ~PageLoad)
            => \/ /\ currentUser' = calls[c].arg
                  /\ apiClient'.token = TokenOf(calls[c].arg)
                  /\ isLoggedIn'
                  /\ userRole' = calls[c].arg.role
               \/ UNCHANGED <<currentUser, isLoggedIn, userRole, apiClient,
                              localStorage, cart>>

\* C26: through page loads, logins, registrations and logouts, failed and
\* overlapping ones included, isLoggedIn holds exactly when currentUser is
\* non-null and the API client holds a token, userRole is currentUser.role
\* when logged in and 'customer' otherwise, and a failed login or register
\* changes none of them.
C26_SessionConsistent == []C26_Post /\ [][C26_Step]_vars

\* an admin is logged in after a login that overlapped a registration which
\* is still under way
C26_Witness ==
    /\ isLoggedIn
    /\ currentUser = Admin
    /\ userRole = "admin"
    /\ localStorage = StoredSession(Admin)
    /\ \E c \in Calls : calls[c].fn = "register"

====
